---- MODULE Spec2Model ----
(***************************************************************************)
(* Model of plugins/capture-website/src/index.ts: the option resolver      *)
(* (makeOptions), the input classifier (isUrl), the capture invoker        *)
(* (render) and the command callback registered by apply.                  *)
(*                                                                         *)
(* JavaScript strings are sequences of one-character strings, so that the  *)
(* regular expressions, the template strings, split and the unary plus of  *)
(* the source are computed character by character.                         *)
(***************************************************************************)
EXTENDS Integers, Sequences, FiniteSets, TLC

VARIABLES
    pc,             \* position of the invocation: "idle", "engine" (awaiting captureWebsite.buffer), "done"; "start", "resolved", "again" for makeOptions alone
    entry,          \* which function the caller entered: "none", "command", "render", "makeOptions"
    url,            \* the <url> argument of the command callback
    urlOrContent,   \* first argument of render
    callerOptions,  \* the options object as the caller supplied it
    options,        \* the options object (makeOptions and render mutate it in place)
    config,         \* the plugin Config
    chrome,         \* the host's browser installation, as chrome-finder sees it
    engineCalls,    \* calls of captureWebsite.buffer made so far, in order
    findChromeCalls,\* calls of findChrome made so far
    makeOptionsCalls,\* calls of makeOptions made so far
    engineOutcome,  \* how the pending captureWebsite.buffer promise settled
    outcome,        \* what the entered function gave back to its caller
    first           \* result of the first makeOptions run (kept for comparison)

vars == << pc, entry, url, urlOrContent, callerOptions, options, config, chrome,
           engineCalls, findChromeCalls, makeOptionsCalls, engineOutcome, outcome, first >>

-----------------------------------------------------------------------------
(* Bounds of the model *)

\* numeric option values range over 0..MaxNum
MaxNum == 2
\* a caller option set supplies at most MaxSupplied of the defaultable options
MaxSupplied == 3
\* a subject string is a concatenation of at most MaxFrags fragments
MaxFrags == 3

-----------------------------------------------------------------------------
(* JavaScript values *)

Undefined == [k |-> "undefined", n |-> 0, s |-> << >>]
NaN == [k |-> "NaN", n |-> 0, s |-> << >>]
Num(n) == [k |-> "number", n |-> n, s |-> << >>]
Str(s) == [k |-> "string", n |-> 0, s |-> s]
Bool(b) == [k |-> "boolean", n |-> IF b THEN 1 ELSE 0, s |-> << >>]

\* ToBoolean, as applied by `!x` and `if (x)`
Truthy(v) ==
    CASE v.k = "undefined" -> FALSE
      [] v.k = "NaN" -> FALSE
      [] v.k = "number" -> v.n # 0
      [] v.k = "string" -> v.s # << >>
      [] v.k = "boolean" -> v.n = 1

-----------------------------------------------------------------------------
(* Strings *)

Digits == << "0", "1", "2", "3", "4", "5", "6", "7", "8", "9" >>

IsDigit(c) == \E d \in 1..10 : Digits[d] = c

DigitValue(c) == (CHOOSE d \in 1..10 : Digits[d] = c) - 1

\* \w of a regular expression: [A-Za-z0-9_]
IsWordChar(c) ==
    c \in { "a", "b", "c", "d", "e", "f", "g", "h", "i", "j", "k", "l", "m",
            "n", "o", "p", "q", "r", "s", "t", "u", "v", "w", "x", "y", "z",
            "A", "B", "C", "D", "E", "F", "G", "H", "I", "J", "K", "L", "M",
            "N", "O", "P", "Q", "R", "S", "T", "U", "V", "W", "X", "Y", "Z",
            "0", "1", "2", "3", "4", "5", "6", "7", "8", "9", "_" }

StartsWithAt(s, i, p) ==
    /\ i + Len(p) - 1 <= Len(s)
    /\ \A j \in 1..Len(p) : s[i + j - 1] = p[j]

\* String(n) of a natural number below 1e21, as a template string formats it
RECURSIVE NumberToString(_)
NumberToString(n) ==
    IF n < 10 THEN << Digits[n + 1] >>
    ELSE NumberToString(n \div 10) \o << Digits[(n % 10) + 1] >>

\* s.split(sep) for a one-character separator
RECURSIVE Split(_, _)
Split(s, sep) ==
    IF \A i \in 1..Len(s) : s[i] # sep THEN << s >>
    ELSE LET i == CHOOSE i \in 1..Len(s) : s[i] = sep /\ \A j \in 1..(i - 1) : s[j] # sep
         IN  << SubSeq(s, 1, i - 1) >> \o Split(SubSeq(s, i + 1, Len(s)), sep)

\* white space stripped from both ends, as ToNumber does before parsing
RECURSIVE Trim(_)
Trim(s) ==
    IF s = << >> THEN s
    ELSE IF Head(s) = " " THEN Trim(Tail(s))
    ELSE IF s[Len(s)] = " " THEN Trim(SubSeq(s, 1, Len(s) - 1))
    ELSE s

RECURSIVE DecimalValue(_)
DecimalValue(s) ==
    IF s = << >> THEN 0
    ELSE 10 * DecimalValue(SubSeq(s, 1, Len(s) - 1)) + DigitValue(s[Len(s)])

\* unary plus (ToNumber) on an element of the split viewport; a missing
\* element is undefined.  Over digits, letters and blanks: the empty or blank
\* string is 0, a run of digits is its decimal value, anything else is NaN.
ToNumber(v) ==
    IF v.k = "undefined" THEN NaN
    ELSE LET t == Trim(v.s)
         IN  IF t = << >> THEN Num(0)
             ELSE IF \A i \in 1..Len(t) : IsDigit(t[i]) THEN Num(DecimalValue(t))
             ELSE NaN

ElementAt(seq, i) == IF i + 1 <= Len(seq) THEN Str(seq[i + 1]) ELSE Undefined

PNG == Str(<< "p", "n", "g" >>)
JPEG == Str(<< "j", "p", "e", "g" >>)
WEBP == Str(<< "w", "e", "b", "p" >>)
HTML == Str(<< "h", "t", "m", "l" >>)

ProxyFlag == << "-", "-", "p", "r", "o", "x", "y", "-", "s", "e", "r", "v", "e", "r", "=" >>

HttpsPrefix == << "h", "t", "t", "p", "s", ":", "/", "/" >>

\* String(v), as string concatenation and RegExp.prototype.exec coerce a value
ToStringValue(v) ==
    IF v.k = "undefined" THEN << "u", "n", "d", "e", "f", "i", "n", "e", "d" >> ELSE v.s

-----------------------------------------------------------------------------
(* Config *)

NoConfig ==
    [present |-> FALSE,
     browser |-> [defaultViewport |-> [width |-> 0, height |-> 0, deviceScaleFactor |-> 0],
                  proxyServer |-> Undefined]]

MakeConfig(w, h, d, p) ==
    [present |-> TRUE,
     browser |-> [defaultViewport |-> [width |-> w, height |-> h, deviceScaleFactor |-> d],
                  proxyServer |-> p]]

defaultConfig == MakeConfig(1280, 800, 2, Undefined)

-----------------------------------------------------------------------------
(* Options *)

NoLaunchOptions ==
    [set |-> FALSE, args |-> << >>, executablePath |-> << >>,
     defaultViewport |-> [width |-> 0, height |-> 0, deviceScaleFactor |-> 0]]

\* an options object that supplies nothing
NoOptions ==
    [viewport |-> Undefined, scaleFactor |-> Undefined, type |-> Undefined,
     quality |-> Undefined, timeout |-> Undefined, delay |-> Undefined,
     disableAnimations |-> Undefined, launchOptions |-> NoLaunchOptions,
     width |-> Undefined, height |-> Undefined, inputType |-> Undefined]

-----------------------------------------------------------------------------
(* isUrl *)

\* /^(https?|file):\/\/|^data:/ with the pattern anywhere in the string
isUrlUnanchored(s) ==
    \E i \in 1..(Len(s) + 1) :
        \/ \E p \in { << "h", "t", "t", "p" >>, << "h", "t", "t", "p", "s" >>, << "f", "i", "l", "e" >> } :
              StartsWithAt(s, i, p \o << ":", "/", "/" >>)
        \/ StartsWithAt(s, i, << "d", "a", "t", "a", ":" >>)

\* /^(https?|file):\/\/|^data:/.test(s): at position 1, either "http", an
\* optional "s" and "://", or "file" and "://"; or else "data:"
isUrl(s) ==
    \/ /\ StartsWithAt(s, 1, << "h", "t", "t", "p" >>)
       /\ \/ StartsWithAt(s, 5, << "s", ":", "/", "/" >>)
          \/ StartsWithAt(s, 5, << ":", "/", "/" >>)
    \/ StartsWithAt(s, 1, << "f", "i", "l", "e", ":", "/", "/" >>)
    \/ StartsWithAt(s, 1, << "d", "a", "t", "a", ":" >>)

-----------------------------------------------------------------------------
(* makeOptions *)

fillViewportFixed(o, c) ==
    IF ~Truthy(o.viewport)
    THEN [o EXCEPT !.viewport = Str(NumberToString(defaultConfig.browser.defaultViewport.width) \o << "x" >>
                                    \o NumberToString(defaultConfig.browser.defaultViewport.height))]
    ELSE o

fillViewport(o, c) ==
    IF ~Truthy(o.viewport)
    THEN [o EXCEPT !.viewport = Str(NumberToString(c.browser.defaultViewport.width) \o << "x" >>
                                    \o NumberToString(c.browser.defaultViewport.height))]
    ELSE o

fillScaleFactor(o, c) ==
    IF ~Truthy(o.scaleFactor)
    THEN [o EXCEPT !.scaleFactor = Num(c.browser.defaultViewport.deviceScaleFactor)]
    ELSE o

fillType(o) == IF ~Truthy(o.type) THEN [o EXCEPT !.type = PNG] ELSE o

fillQuality(o) ==
    IF ~Truthy(o.quality) /\ o.type # PNG THEN [o EXCEPT !.quality = Num(1)] ELSE o

fillTimeout(o) == IF ~Truthy(o.timeout) THEN [o EXCEPT !.timeout = Num(60)] ELSE o

fillDelay(o) == IF ~Truthy(o.delay) THEN [o EXCEPT !.delay = Num(0)] ELSE o

fillDisableAnimations(o) ==
    IF ~Truthy(o.disableAnimations) THEN [o EXCEPT !.disableAnimations = Bool(FALSE)] ELSE o

\* the args array pushed onto whatever launchOptions.args the object already has
launchArgsKept(o, c) ==
    IF Truthy(c.browser.proxyServer)
    THEN Append(o.launchOptions.args, ProxyFlag \o c.browser.proxyServer.s)
    ELSE o.launchOptions.args

\* the proxy flag pushed whenever proxyServer is defined, the empty string included
launchArgsDefined(o, c) ==
    IF c.browser.proxyServer # Undefined
    THEN << ProxyFlag \o c.browser.proxyServer.s >>
    ELSE << >>

\* launchOptions.args: a new empty array, then the proxy flag if proxyServer is truthy
launchArgs(o, c) ==
    IF Truthy(c.browser.proxyServer)
    THEN << ProxyFlag \o c.browser.proxyServer.s >>
    ELSE << >>

setLaunchOptions(o, c, path) ==
    [o EXCEPT !.launchOptions =
        [set |-> TRUE, args |-> launchArgs(o, c), executablePath |-> path,
         defaultViewport |-> c.browser.defaultViewport]]

setWidthHeight(o) ==
    IF Truthy(o.viewport)
    THEN LET viewport == Split(o.viewport.s, "x")
         IN  [o EXCEPT !.width = ToNumber(ElementAt(viewport, 0)),
                       !.height = ToNumber(ElementAt(viewport, 1))]
    ELSE o

\* findChrome(): the path of the installed browser, or an Error thrown
findChrome(ch) == [threw |-> ~ch.found, path |-> ch.path, message |-> ch.message]

\* makeOptions(options, config): the options object as the call leaves it,
\* and the error if findChrome threw (the object then keeps the defaults
\* filled in before line 115, and gets nothing after)
makeOptions(o, c, ch) ==
    LET filled == fillDisableAnimations(fillDelay(fillTimeout(fillQuality(fillType(
                      fillScaleFactor(fillViewport(o, c), c))))))
        found == findChrome(ch)
    IN  IF found.threw
        THEN [threw |-> TRUE, message |-> found.message, options |-> filled, findChromeCalls |-> 1]
        ELSE [threw |-> FALSE, message |-> "",
              options |-> setWidthHeight(setLaunchOptions(filled, c, found.path)),
              findChromeCalls |-> 1]

-----------------------------------------------------------------------------
(* render *)

NoImage == "none"

GenericMessage == "capture website failed."

PromptMessage == "Please enter URL."

NoOutcome == [kind |-> "none", image |-> NoImage, message |-> ""]

Returned(image) == [kind |-> "returned", image |-> image, message |-> ""]

Thrown(message) == [kind |-> "thrown", image |-> NoImage, message |-> message]

\* render with makeOptions inside the try block: its error is collapsed too
renderSyncCatchAll(s, o, c, ch) ==
    LET cfg == IF ~c.present THEN defaultConfig ELSE c
        r == makeOptions(o, cfg, ch)
    IN  IF r.threw
        THEN [threw |-> TRUE, message |-> GenericMessage, options |-> r.options,
              makeOptionsCalls |-> 1, findChromeCalls |-> r.findChromeCalls]
        ELSE [threw |-> FALSE, message |-> "",
              options |-> IF ~isUrl(s.s) THEN [r.options EXCEPT !.inputType = HTML] ELSE r.options,
              makeOptionsCalls |-> 1, findChromeCalls |-> r.findChromeCalls]

\* render up to the call of captureWebsite.buffer: the error makeOptions
\* threw (it propagates, the call is outside the try block), or the options
\* object handed to the engine
renderSync(s, o, c, ch) ==
    LET cfg == IF ~c.present THEN defaultConfig ELSE c
        r == makeOptions(o, cfg, ch)
    IN  IF r.threw
        THEN [threw |-> TRUE, message |-> r.message, options |-> r.options,
              makeOptionsCalls |-> 1, findChromeCalls |-> r.findChromeCalls]
        ELSE [threw |-> FALSE, message |-> "",
              options |-> IF ~isUrl(s.s) THEN [r.options EXCEPT !.inputType = HTML] ELSE r.options,
              makeOptionsCalls |-> 1, findChromeCalls |-> r.findChromeCalls]

\* render rethrowing the engine's error
renderSettleRethrow(eo) ==
    IF eo.kind = "resolved" THEN Returned(eo.image) ELSE Thrown(eo.message)

\* render after the await: the engine's image returned, or the fixed Error thrown
renderSettle(eo) ==
    IF eo.kind = "resolved" THEN Returned(eo.image) ELSE Thrown(GenericMessage)

-----------------------------------------------------------------------------
(* the command callback *)

\* length of the longest prefix of s made of \w characters
WordRun(s) ==
    CHOOSE k \in 0..Len(s) :
        /\ \A i \in 1..k : IsWordChar(s[i])
        /\ k < Len(s) => ~IsWordChar(s[k + 1])

\* /(\w+):\/\// found anywhere in the string
hasSchemeUnanchored(s) ==
    \E i \in 1..Len(s) : IsWordChar(s[i]) /\ StartsWithAt(s, i + 1, << ":", "/", "/" >>)

\* /^(\w+):\/\//.exec(url) is not null: \w+ takes the whole run of word
\* characters at the start (":" is none, so giving characters back never
\* helps), and "://" has to follow
hasScheme(s) ==
    LET k == WordRun(s)
    IN  k >= 1 /\ StartsWithAt(s, k + 1, << ":", "/", "/" >>)

normalizeUrl(u) ==
    IF ~hasScheme(ToStringValue(u)) THEN Str(HttpsPrefix \o ToStringValue(u)) ELSE u

\* the callback without its check of url
actionSyncUnchecked(u, o, c, ch) ==
    LET s == normalizeUrl(u)
    IN  [prompted |-> FALSE, urlOrContent |-> s, render |-> renderSync(s, o, c, ch)]

\* the callback up to its await of render: the prompt returned for a falsy
\* url, else the url normalised and render entered
actionSync(u, o, c, ch) ==
    IF ~Truthy(u)
    THEN [prompted |-> TRUE, urlOrContent |-> Undefined,
          render |-> [threw |-> FALSE, message |-> "", options |-> o,
                      makeOptionsCalls |-> 0, findChromeCalls |-> 0]]
    ELSE LET s == normalizeUrl(u)
         IN  [prompted |-> FALSE, urlOrContent |-> s, render |-> renderSync(s, o, c, ch)]

\* the callback after render settled: segment.image(image), or error.message
actionSettle(r) ==
    IF r.kind = "returned"
    THEN [kind |-> "image", image |-> r.image, message |-> ""]
    ELSE [kind |-> "text", image |-> NoImage, message |-> r.message]

-----------------------------------------------------------------------------
(* Inputs and environment *)

Fragments ==
    { << "h", "t", "t", "p" >>, << "h", "t", "t", "p", "s" >>, << "f", "i", "l", "e" >>,
      << "d", "a", "t", "a" >>, << "H", "T", "T", "P" >>, << ":", "/", "/" >>,
      << ":" >>, << "a" >>, << "-" >> }

RECURSIVE Concats(_)
Concats(n) ==
    IF n = 0 THEN { << >> }
    ELSE LET shorter == Concats(n - 1)
         IN  shorter \cup { p \o f : p \in shorter, f \in Fragments }

Subjects == Concats(MaxFrags)

ViewportSamples ==
    { << >>, << "1", "2", "x", "8" >>, << "1", "2" >>, << "x", "8" >>, << "a", "x", "8" >>,
      << " ", "1", "2", "x", " ", "8", " " >>, << "1", "2", "x", "8", "x", "0" >> }

CallerLaunchOptions ==
    [set |-> TRUE, args |-> << ProxyFlag \o << "q" >> >>, executablePath |-> << "/", "b" >>,
     defaultViewport |-> [width |-> 1, height |-> 1, deviceScaleFactor |-> 1]]

NumValues == { Undefined } \cup { Num(n) : n \in 0..MaxNum }

Defaultable ==
    { "viewport", "scaleFactor", "type", "quality", "timeout", "delay", "disableAnimations" }

Supplied(o) ==
    { f \in Defaultable : o[f] # Undefined }
        \cup (IF o.launchOptions.set THEN { "launchOptions" } ELSE { })

CallerOptions ==
    { o \in [viewport : { Undefined } \cup { Str(v) : v \in ViewportSamples },
             scaleFactor : NumValues,
             type : { Undefined, PNG, JPEG, WEBP },
             quality : { Undefined, Num(0), Num(1) },
             timeout : NumValues,
             delay : NumValues,
             disableAnimations : { Undefined, Bool(FALSE), Bool(TRUE) },
             launchOptions : { NoLaunchOptions, CallerLaunchOptions },
             width : { Undefined }, height : { Undefined }, inputType : { Undefined }] :
        Cardinality(Supplied(o)) <= MaxSupplied }

Configs ==
    { defaultConfig } \cup
    { MakeConfig(w, 8, w \div 12, p) : w \in { 0, 12 },
                                       p \in { Undefined, Str(<< >>), Str(<< "p" >>) } }

\* the Config the plugin is applied with in the command pipeline
PluginConfig == MakeConfig(12, 8, 1, Str(<< "p" >>))

PipelineOptions == { NoOptions, [NoOptions EXCEPT !.type = JPEG] }

Chromes ==
    { [found |-> TRUE, path |-> << "/", "c" >>, message |-> ""],
      [found |-> FALSE, path |-> << >>, message |-> "no chrome installations found"],
      [found |-> FALSE, path |-> << >>, message |-> "platform not support"] }

Images == { "image1", "image2" }

EngineErrors == { "net::ERR_NAME_NOT_RESOLVED", "Navigation timeout of 60000 ms exceeded" }

NoEngineOutcome == [kind |-> "none", image |-> NoImage, message |-> ""]

NoResult == [threw |-> FALSE, message |-> "", options |-> NoOptions]

-----------------------------------------------------------------------------
(* The command pipeline *)

Init ==
    /\ pc = "idle"
    /\ entry = "none"
    /\ url = Undefined
    /\ urlOrContent = Undefined
    /\ callerOptions = NoOptions
    /\ options = NoOptions
    /\ config = PluginConfig
    /\ chrome \in Chromes
    /\ engineCalls = << >>
    /\ findChromeCalls = 0
    /\ makeOptionsCalls = 0
    /\ engineOutcome = NoEngineOutcome
    /\ outcome = NoOutcome
    /\ first = NoResult

\* the command is invoked: the callback runs up to its first suspension
Command(u, o) ==
    /\ pc = "idle"
    /\ \E a \in { actionSync(u, o, config, chrome) } :
           /\ entry' = "command"
           /\ url' = u
           /\ callerOptions' = o
           /\ urlOrContent' = a.urlOrContent
           /\ options' = a.render.options
           /\ makeOptionsCalls' = makeOptionsCalls + a.render.makeOptionsCalls
           /\ findChromeCalls' = findChromeCalls + a.render.findChromeCalls
           /\ IF a.prompted
              THEN /\ outcome' = [kind |-> "text", image |-> NoImage, message |-> PromptMessage]
                   /\ pc' = "done"
                   /\ UNCHANGED engineCalls
              ELSE IF a.render.threw
              THEN /\ outcome' = actionSettle(Thrown(a.render.message))
                   /\ pc' = "done"
                   /\ UNCHANGED engineCalls
              ELSE /\ engineCalls' = Append(engineCalls,
                                            [urlOrContent |-> a.urlOrContent, options |-> a.render.options])
                   /\ pc' = "engine"
                   /\ UNCHANGED outcome
    /\ UNCHANGED << config, chrome, engineOutcome, first >>

\* the exported render is called directly, with or without a config
RenderCall(s, o, c) ==
    /\ pc = "idle"
    /\ \E r \in { renderSync(s, o, c, chrome) } :
           /\ entry' = "render"
           /\ urlOrContent' = s
           /\ callerOptions' = o
           /\ config' = c
           /\ options' = r.options
           /\ makeOptionsCalls' = makeOptionsCalls + r.makeOptionsCalls
           /\ findChromeCalls' = findChromeCalls + r.findChromeCalls
           /\ IF r.threw
              THEN /\ outcome' = Thrown(r.message)
                   /\ pc' = "done"
                   /\ UNCHANGED engineCalls
              ELSE /\ engineCalls' = Append(engineCalls, [urlOrContent |-> s, options |-> r.options])
                   /\ pc' = "engine"
                   /\ UNCHANGED outcome
    /\ UNCHANGED << url, chrome, engineOutcome, first >>

\* the engine's promise settles and the suspended callers run to their end
EngineSettle(eo) ==
    /\ pc = "engine"
    /\ engineOutcome' = eo
    /\ outcome' = IF entry = "command" THEN actionSettle(renderSettle(eo)) ELSE renderSettle(eo)
    /\ pc' = "done"
    /\ UNCHANGED << entry, url, urlOrContent, callerOptions, options, config, chrome,
                    engineCalls, findChromeCalls, makeOptionsCalls, first >>

EngineResolve ==
    \E image \in Images : EngineSettle([kind |-> "resolved", image |-> image, message |-> ""])

EngineReject ==
    \E message \in EngineErrors :
        EngineSettle([kind |-> "rejected", image |-> NoImage, message |-> message])

CommandInvoked ==
    /\ pc = "idle"
    /\ \E u \in { Undefined } \cup { Str(s) : s \in Subjects }, o \in PipelineOptions : Command(u, o)

RenderInvoked ==
    /\ pc = "idle"
    /\ \E s \in Subjects, o \in PipelineOptions, c \in { config, NoConfig } : RenderCall(Str(s), o, c)

Next == CommandInvoked \/ RenderInvoked \/ EngineResolve \/ EngineReject

Spec == Init /\ [][Next]_vars

-----------------------------------------------------------------------------
(* makeOptions alone *)

InitResolve ==
    /\ pc = "start"
    /\ entry = "makeOptions"
    /\ url = Undefined
    /\ urlOrContent = Undefined
    /\ callerOptions \in CallerOptions
    /\ options = callerOptions
    /\ config \in Configs
    /\ chrome \in Chromes
    /\ engineCalls = << >>
    /\ findChromeCalls = 0
    /\ makeOptionsCalls = 0
    /\ engineOutcome = NoEngineOutcome
    /\ outcome = NoOutcome
    /\ first = NoResult

Run(o, next) ==
    \E r \in { makeOptions(o, config, chrome) } :
        /\ options' = r.options
        /\ outcome' = IF r.threw THEN Thrown(r.message) ELSE Returned(NoImage)
        /\ makeOptionsCalls' = makeOptionsCalls + 1
        /\ findChromeCalls' = findChromeCalls + r.findChromeCalls
        /\ pc' = next
        /\ UNCHANGED << entry, url, urlOrContent, callerOptions, config, chrome,
                        engineCalls, engineOutcome >>

\* makeOptions(options, config) on the caller's object
Resolve ==
    /\ pc = "start"
    /\ Run(options, "resolved")
    /\ first' = [threw |-> outcome'.kind = "thrown", message |-> outcome'.message,
                 options |-> options']

\* makeOptions again on the object the first run left
ResolveAgain ==
    /\ pc = "resolved"
    /\ Run(options, "again")
    /\ UNCHANGED first

\* makeOptions again on a fresh copy of what the caller supplied
ResolveFresh ==
    /\ pc = "resolved"
    /\ Run(callerOptions, "fresh")
    /\ UNCHANGED first

NextResolve == Resolve \/ ResolveAgain \/ ResolveFresh

SpecResolve == InitResolve /\ [][NextResolve]_vars

-----------------------------------------------------------------------------
(* Properties of makeOptions, checked under SpecResolve *)

Resolved == entry = "makeOptions" /\ pc = "resolved"

\* C1: every timeout the caller supplied, 0 included, is the timeout of the
\* resolved request; 60 is used only when the caller supplied none.
C1_TimeoutPassedThrough ==
    Resolved =>
        /\ callerOptions.timeout # Undefined => options.timeout = callerOptions.timeout
        /\ callerOptions.timeout = Undefined => options.timeout = Num(60)

\* C2: with no caller quality, quality stays unset for png and is 1 for jpeg
\* and webp; a quality the caller supplied, 0 included, is passed through
\* unchanged for every image type.
C2_QualityResolved ==
    Resolved =>
        /\ (callerOptions.quality = Undefined /\ options.type = PNG)
              => options.quality = Undefined
        /\ (callerOptions.quality = Undefined /\ options.type \in { JPEG, WEBP })
              => options.quality = Num(1)
        /\ callerOptions.quality # Undefined => options.quality = callerOptions.quality

\* C3: each defaultable option the caller omitted is resolved to its
\* documented default: viewport "<width>x<height>" of the config, scaleFactor
\* the config's deviceScaleFactor, type png, timeout 60, delay 0,
\* disableAnimations false; and width and height are the numbers the
\* resolved viewport string parses to.
C3_DefaultsFilled ==
    Resolved =>
        LET dv == config.browser.defaultViewport
        IN  /\ callerOptions.viewport = Undefined =>
                  /\ options.viewport = Str(NumberToString(dv.width) \o << "x" >> \o NumberToString(dv.height))
                  /\ ~first.threw => options.width = Num(dv.width) /\ options.height = Num(dv.height)
            /\ callerOptions.scaleFactor = Undefined => options.scaleFactor = Num(dv.deviceScaleFactor)
            /\ callerOptions.type = Undefined => options.type = PNG
            /\ callerOptions.timeout = Undefined => options.timeout = Num(60)
            /\ callerOptions.delay = Undefined => options.delay = Num(0)
            /\ callerOptions.disableAnimations = Undefined => options.disableAnimations = Bool(FALSE)

C3_Witness ==
    /\ Resolved
    /\ Supplied(callerOptions) = { }
    /\ config = defaultConfig
    /\ options.viewport = Str(<< "1", "2", "8", "0", "x", "8", "0", "0" >>)
    /\ options.width = Num(1280)
    /\ options.height = Num(800)
    /\ options.scaleFactor = Num(2)
    /\ options.quality = Undefined

\* C9: whatever the caller supplied (a launchOptions field of its own
\* included), the resolved launchOptions.args is exactly the one entry
\* "--proxy-server=<proxyServer>" when the config has a non-empty proxyServer,
\* and is empty otherwise.
C9_ProxyArgs ==
    (entry = "makeOptions" /\ outcome.kind = "returned") =>
        LET proxy == config.browser.proxyServer
        IN  /\ options.launchOptions.set
            /\ IF proxy.k = "string" /\ Len(proxy.s) > 0
               THEN options.launchOptions.args = << ProxyFlag \o proxy.s >>
               ELSE options.launchOptions.args = << >>

C9_Witness ==
    /\ Resolved
    /\ outcome.kind = "returned"
    /\ callerOptions.launchOptions = CallerLaunchOptions
    /\ config.browser.proxyServer = Str(<< "p" >>)
    /\ Len(options.launchOptions.args) = 1

\* C10: a second run of makeOptions, on the object the first run resolved or
\* on the same caller options afresh, leaves the same resolved request (and
\* fails the same way) as the first.
C10_Idempotent ==
    (entry = "makeOptions" /\ pc \in { "again", "fresh" }) =>
        /\ options = first.options
        /\ (outcome.kind = "thrown") = first.threw
        /\ outcome.message = first.message

C10_Witness ==
    /\ entry = "makeOptions"
    /\ pc = "again"
    /\ outcome.kind = "returned"
    /\ Cardinality(Supplied(callerOptions)) = MaxSupplied
    /\ config.browser.proxyServer = Str(<< "p" >>)
    /\ options # callerOptions

-----------------------------------------------------------------------------
(* Properties of the command pipeline, checked under Spec *)

\* the string starts with one or more \w characters followed by "://"
SchemePrefixed(s) ==
    \E k \in 1..Len(s) :
        /\ \A i \in 1..k : IsWordChar(s[i])
        /\ StartsWithAt(s, k + 1, << ":", "/", "/" >>)

\* the string starts with "http://", "https://", "file://" or "data:"
UrlPrefixed(s) ==
    \E p \in { << "h", "t", "t", "p", ":", "/", "/" >>,
               << "h", "t", "t", "p", "s", ":", "/", "/" >>,
               << "f", "i", "l", "e", ":", "/", "/" >>,
               << "d", "a", "t", "a", ":" >> } :
        Len(p) <= Len(s) /\ SubSeq(s, 1, Len(p)) = p

\* C4: a non-empty subject of the command without a "protocol://" prefix
\* reaches render as "https://" followed by the subject and is sent to the
\* engine with no html input type; one with such a prefix reaches render
\* unchanged.
C4_SchemeNormalised ==
    (entry = "command" /\ Truthy(url)) =>
        /\ makeOptionsCalls = 1
        /\ \A i \in 1..Len(engineCalls) : engineCalls[i].urlOrContent = urlOrContent
        /\ IF SchemePrefixed(url.s)
           THEN urlOrContent = url
           ELSE /\ urlOrContent = Str(<< "h", "t", "t", "p", "s", ":", "/", "/" >> \o url.s)
                /\ \A i \in 1..Len(engineCalls) : engineCalls[i].options.inputType = Undefined

C4_Witness ==
    /\ entry = "command"
    /\ pc = "engine"
    /\ url = Str(<< "-", "a", ":", "/", "/" >>)
    /\ urlOrContent = Str(<< "h", "t", "t", "p", "s", ":", "/", "/", "-", "a", ":", "/", "/" >>)
    /\ Len(engineCalls) = 1
    /\ engineCalls[1].options.inputType = Undefined

C6_EngineFailureCollapsed ==
    (pc = "done" /\ engineOutcome.kind # "none") =>
        IF engineOutcome.kind = "rejected"
        THEN /\ outcome.kind = (IF entry = "command" THEN "text" ELSE "thrown")
             /\ outcome.message = "capture website failed."
             /\ outcome.image = NoImage
        ELSE /\ outcome.kind = (IF entry = "command" THEN "image" ELSE "returned")
             /\ outcome.image = engineOutcome.image

C6_Witness ==
    /\ pc = "done"
    /\ entry = "command"
    /\ engineOutcome.kind = "rejected"
    /\ engineOutcome.message = "net::ERR_NAME_NOT_RESOLVED"
    /\ outcome.kind = "text"
    /\ outcome.message = GenericMessage

\* C7: when findChrome fails during option resolution, the invocation ends
\* in failure with the engine never called and findChrome called once, and
\* the failure that reaches the caller is findChrome's own, not the generic
\* capture-failed error.
C7_DiscoveryFailureSurfaced ==
    (entry \in { "command", "render" } /\ makeOptionsCalls > 0 /\ ~chrome.found) =>
        /\ pc = "done"
        /\ engineCalls = << >>
        /\ findChromeCalls = 1
        /\ makeOptionsCalls = 1
        /\ outcome.kind = (IF entry = "command" THEN "text" ELSE "thrown")
        /\ outcome.message = chrome.message
        /\ outcome.message # "capture website failed."

C7_Witness ==
    /\ entry = "command"
    /\ pc = "done"
    /\ ~chrome.found
    /\ makeOptionsCalls = 1
    /\ outcome.kind = "text"
    /\ outcome.message = "no chrome installations found"

\* C8: the command invoked with an empty subject replies "Please enter URL."
\* and neither makeOptions, findChrome nor the engine is ever called in that
\* invocation.
C8_EmptySubjectPrompt ==
    (entry = "command" /\ ~Truthy(url)) =>
        /\ pc = "done"
        /\ outcome = [kind |-> "text", image |-> NoImage, message |-> "Please enter URL."]
        /\ makeOptionsCalls = 0
        /\ findChromeCalls = 0
        /\ engineCalls = << >>

C8_Witness ==
    /\ entry = "command"
    /\ url = Str(<< >>)
    /\ pc = "done"
    /\ outcome.kind = "text"

====
